---- MODULE Spec2Model ----
(***************************************************************************)
(* Model of NaomiVK/genmetadata: the URL scraper (scrape_urls.py), the     *)
(* metadata generator (metadata_generator.py) and the two drivers that     *)
(* compose them (main.py, scrape_urls.py).                                 *)
(*                                                                         *)
(* A Python str is a sequence of one-character strings, so that len,       *)
(* strip, slicing, rfind and urlparse are computed the way the code        *)
(* computes them.                                                          *)
(***************************************************************************)
EXTENDS Integers, Sequences, FiniteSets, TLC

\* ------------------------------------------------------------------------
\* Bounds of the model

\* rows of an input table
MaxRows == 2
\* length of the strings handed to truncate_summary on its own
MaxLen == 4
\* seconds that may pass between two readings of the clock
MaxGap == 1
\* time.time() when the scraper is constructed (seconds)
StartTime == 10
\* child elements of the main element _extract_content is run on
MaxTop == 2

\* ------------------------------------------------------------------------
\* Python str helpers

Min(S) == CHOOSE x \in S : \A y \in S : x <= y
Max(S) == 0 - Min({0 - x : x \in S})

\* c * n
Rep(c, n) == [k \in 1..n |-> c]

\* Slice bounds as Python normalises them: a negative index counts from the
\* end, and the result is clamped to 0..len.
PyIndex(k, n) ==
  LET j == IF k < 0 THEN k + n ELSE k
  IN  IF j < 0 THEN 0 ELSE IF j > n THEN n ELSE j

\* s[a:b], 0-based, end exclusive
Slice(s, a, b) == SubSeq(s, PyIndex(a, Len(s)) + 1, PyIndex(b, Len(s)))

\* s.find(c) for a one-character c: lowest 0-based index, or -1
find(s, c) ==
  LET hits == {k \in 1..Len(s) : s[k] = c}
  IN  IF hits = {} THEN -1 ELSE Min(hits) - 1

\* s.rfind(c, start, end) for a one-character c: highest 0-based index in
\* s[start:end], or -1
rfind(s, c, start, end) ==
  LET a == PyIndex(start, Len(s))
      b == PyIndex(end, Len(s))
      hits == {k \in a..(b - 1) : s[k + 1] = c}
  IN  IF hits = {} THEN -1 ELSE Max(hits)

Whitespace == {" ", "\t", "\n"}

\* s.strip()
strip(s) ==
  LET keep == {k \in 1..Len(s) : s[k] \notin Whitespace}
  IN  IF keep = {} THEN <<>> ELSE SubSeq(s, Min(keep), Max(keep))

DigitChars == <<"0", "1", "2", "3", "4", "5", "6", "7", "8", "9">>

\* str(n) for n >= 0
RECURSIVE str(_)
str(n) == IF n < 10 THEN <<DigitChars[n + 1]>>
          ELSE str(n \div 10) \o <<DigitChars[(n % 10) + 1]>>

\* ------------------------------------------------------------------------
\* String literals of the program

\* 'Invalid URL format'
InvalidUrlFormat ==
  <<"I", "n", "v", "a", "l", "i", "d", " ", "U", "R", "L", " ", "f", "o", "r", "m", "a", "t">>

\* 'redirected'
Redirected ==
  <<"r", "e", "d", "i", "r", "e", "c", "t", "e", "d">>

\* 'Failed to fetch content - Status code: '
FailedToFetch ==
  <<"F", "a", "i", "l", "e", "d", " ", "t", "o", " ", "f", "e", "t", "c", "h", " ", "c", "o",
    "n", "t", "e", "n", "t", " ", "-", " ", "S", "t", "a", "t", "u", "s", " ", "c", "o", "d",
    "e", ":", " ">>

\* 'Request timed out'
RequestTimedOut ==
  <<"R", "e", "q", "u", "e", "s", "t", " ", "t", "i", "m", "e", "d", " ", "o", "u", "t">>

\* 'Request failed: '
RequestFailed ==
  <<"R", "e", "q", "u", "e", "s", "t", " ", "f", "a", "i", "l", "e", "d", ":", " ">>

\* 'Main element not found on the page'
MainNotFound ==
  <<"M", "a", "i", "n", " ", "e", "l", "e", "m", "e", "n", "t", " ", "n", "o", "t", " ", "f",
    "o", "u", "n", "d", " ", "o", "n", " ", "t", "h", "e", " ", "p", "a", "g", "e">>

\* 'Content too short or invalid for summarization'
SummarySentinel ==
  <<"C", "o", "n", "t", "e", "n", "t", " ", "t", "o", "o", " ", "s", "h", "o", "r", "t", " ",
    "o", "r", " ", "i", "n", "v", "a", "l", "i", "d", " ", "f", "o", "r", " ", "s", "u", "m",
    "m", "a", "r", "i", "z", "a", "t", "i", "o", "n">>

\* 'Content too short or invalid for keyword generation'
KeywordSentinel ==
  <<"C", "o", "n", "t", "e", "n", "t", " ", "t", "o", "o", " ", "s", "h", "o", "r", "t", " ",
    "o", "r", " ", "i", "n", "v", "a", "l", "i", "d", " ", "f", "o", "r", " ", "k", "e", "y",
    "w", "o", "r", "d", " ", "g", "e", "n", "e", "r", "a", "t", "i", "o", "n">>

\* 'Error: Model provided insufficient recommendations'
InsufficientSentinel ==
  <<"E", "r", "r", "o", "r", ":", " ", "M", "o", "d", "e", "l", " ", "p", "r", "o", "v", "i",
    "d", "e", "d", " ", "i", "n", "s", "u", "f", "f", "i", "c", "i", "e", "n", "t", " ", "r",
    "e", "c", "o", "m", "m", "e", "n", "d", "a", "t", "i", "o", "n", "s">>

\* 'Error during review: '
ErrorDuringReview ==
  <<"E", "r", "r", "o", "r", " ", "d", "u", "r", "i", "n", "g", " ", "r", "e", "v", "i", "e",
    "w", ":", " ">>

\* ------------------------------------------------------------------------
\* metadata_generator.py: pure functions

\* ContentProcessor.is_valid threshold
MinContentLen == 50
\* default max_length of truncate_summary
DefaultMaxLength == 250
\* max_tries of the backoff decorator
MaxTries == 3
\* review_metadata: shortest accepted recommendations
MinRecommendationLen == 10

\* ContentProcessor(text).is_valid(): the constructor strips the text
is_valid_off_by_one(text) ==
  LET t == strip(text) IN t # <<>> /\ Len(t) >= MinContentLen - 1
is_valid(text) ==
  LET t == strip(text) IN t # <<>> /\ Len(t) >= MinContentLen

\* MetadataProcessor.truncate_summary
truncate_summary_drops_stop(summary, max_length) ==
  IF Len(summary) > max_length
  THEN LET last_full_stop == rfind(summary, ".", 0, max_length)
       IN  IF last_full_stop # -1
           THEN Slice(summary, 0, last_full_stop)
           ELSE Slice(summary, 0, max_length)
  ELSE summary
truncate_summary_wide_search(summary, max_length) ==
  IF Len(summary) > max_length
  THEN LET last_full_stop == rfind(summary, ".", 0, max_length + 1)
       IN  IF last_full_stop # -1
           THEN Slice(summary, 0, last_full_stop + 1)
           ELSE Slice(summary, 0, max_length)
  ELSE summary
truncate_summary(summary, max_length) ==
  IF Len(summary) > max_length
  THEN LET last_full_stop == rfind(summary, ".", 0, max_length)
       IN  IF last_full_stop # -1
           THEN Slice(summary, 0, last_full_stop + 1)
           ELSE Slice(summary, 0, max_length)
  ELSE summary

\* ------------------------------------------------------------------------
\* scrape_urls.py: URL validation

Letters == {"h"}
Digits == {"1"}
\* urllib.parse.scheme_chars
SchemeChars == Letters \cup Digits \cup {"+", "-", "."}

\* urlparse(url).scheme: the text before the first ':' when it starts with a
\* letter and holds scheme characters only
UrlScheme(url) ==
  LET i == find(url, ":")
  IN  IF i > 0 /\ url[1] \in Letters /\ \A k \in 1..i : url[k] \in SchemeChars
      THEN Slice(url, 0, i)
      ELSE <<>>

\* what urlparse leaves after the scheme
UrlRest(url) ==
  IF UrlScheme(url) # <<>> THEN Slice(url, find(url, ":") + 1, Len(url)) ELSE url

\* urlparse(url).netloc: what follows a leading '//' up to the next '/', '?'
\* or '#'
UrlNetloc(url) ==
  LET rest == UrlRest(url)
      delims == {k \in 3..Len(rest) : rest[k] \in {"/", "?", "#"}}
      delim == IF delims = {} THEN Len(rest) ELSE Min(delims) - 1
  IN  IF Slice(rest, 0, 2) = <<"/", "/">> THEN Slice(rest, 2, delim) ELSE <<>>

\* urlparse raises ValueError('Invalid IPv6 URL') on an unbalanced bracket
UrlParseRaises(url) ==
  LET netloc == UrlNetloc(url)
      Has(c) == \E k \in 1..Len(netloc) : netloc[k] = c
  IN  (Has("[") /\ ~Has("]")) \/ (Has("]") /\ ~Has("["))

\* URLScraper.validate_url
validate_url_any(url) ==
  IF UrlParseRaises(url) THEN FALSE
  ELSE UrlScheme(url) # <<>> \/ UrlNetloc(url) # <<>>
validate_url(url) ==
  IF UrlParseRaises(url) THEN FALSE
  ELSE UrlScheme(url) # <<>> /\ UrlNetloc(url) # <<>>

\* ------------------------------------------------------------------------
\* scrape_urls.py: what a fetch can come back with

\* A parsed page: whether _find_main_element finds a main element, and the
\* text of its allowed tags joined by single spaces.
Pages ==
  { [has_main |-> FALSE, text |-> <<>>],
    [has_main |-> TRUE, text |-> <<"T", "i", "t", "l", "e">>],
    [has_main |-> TRUE, text |-> <<"T", "i", "t", "l", "e", " ">> \o Rep("s", 60)] }

\* _extract_content keeps at most this many characters
MaxContentLen == 2500

StatusCodes == {200, 301, 404}

Fetches ==
  { [kind |-> "response", status |-> s, page |-> p] :
      s \in StatusCodes \ {200}, p \in {CHOOSE q \in Pages : ~q.has_main} }
  \cup { [kind |-> "response", status |-> 200, page |-> p] : p \in Pages }
  \cup { [kind |-> "timeout"], [kind |-> "request_exception"] }

\* No request was made
NoFetch == [kind |-> "none"]

\* str(e) of the requests.RequestException
RequestExceptionText == <<"r", "e", "f", "u", "s", "e", "d">>

\* URLScraper._extract_content: the joined text, cut at 2500 characters
extract_content(page) == Slice(page.text, 0, MaxContentLen)

\* URLScraper.scrape_url: the string returned for a URL and the fetch outcome
ScrapeResult(url, fetch) ==
  IF ~validate_url(url) THEN InvalidUrlFormat
  ELSE IF fetch.kind = "timeout" THEN RequestTimedOut
  ELSE IF fetch.kind = "request_exception" THEN RequestFailed \o RequestExceptionText
  ELSE IF fetch.status = 301 THEN Redirected
  ELSE IF fetch.status # 200 THEN FailedToFetch \o str(fetch.status)
  ELSE IF ~fetch.page.has_main THEN MainNotFound
  ELSE extract_content(fetch.page)

\* ------------------------------------------------------------------------
\* State

VARIABLES
  entry,              \* the script that was started
  api_key,            \* whether GROQ_API_KEY is set
  input_type,         \* "urls_only" or "urls_and_content" (--pre-scraped)
  table,              \* the rows of the input CSV
  pc,                 \* position of the driver
  i,                  \* 1-based index of the row being processed
  scraped,            \* output_data / scraped_df: rows of url, scraped_content
  results,            \* the metadata records emitted so far
  description,        \* locals of the row loop
  keywords,
  recommendations,
  tries,              \* attempts made by the running _make_completion_call
  item,               \* log of the item being processed: its row and the
                      \* model call attempts made for it
  last_request_time,  \* RateLimiter.last_request_time
  clock,              \* the latest reading of time.time()
  waits,              \* calls of RateLimiter.wait so far
  requests,           \* calls of requests.get so far
  calls,              \* calls of scrape_url so far
  call_url,           \* argument and return value of the latest scrape_url
  returned,
  summary,            \* argument, limit and result of a truncate_summary call
  max_length,
  truncated,
  t_pc,
  main_element,       \* the children of the main element _extract_content is given
  cleaned,            \* what _extract_content leaves of them
  extracted,          \* the string _extract_content returns
  e_pc

driver_vars == <<entry, api_key, input_type, table, pc, i, scraped>>
row_vars == <<results, description, keywords, recommendations, tries, item>>
limiter_vars == <<last_request_time, clock, waits>>
scraper_vars == <<last_request_time, clock, waits, requests, calls, call_url, returned>>
truncate_vars == <<summary, max_length, truncated, t_pc>>
extract_vars == <<main_element, cleaned, extracted, e_pc>>
vars == <<driver_vars, row_vars, scraper_vars, truncate_vars, extract_vars>>

\* ------------------------------------------------------------------------
\* scrape_urls.py: RateLimiter and URLScraper

\* RateLimiter.__init__ defaults, in seconds
MinDelay == 1
MaxDelay == 5

Gaps == 0..MaxGap
Delays == MinDelay..MaxDelay

\* RateLimiter.wait. gap: time since the clock was last read; delay: the
\* value random.uniform draws; late: how much later than asked the clock is
\* read again (time.sleep returns no earlier than asked).
wait_without_sleep(gap, delay, late) ==
  LET current_time == clock + gap
  IN  /\ last_request_time' = current_time + late
      /\ clock' = current_time + late
      /\ waits' = waits + 1
wait(gap, delay, late) ==
  LET current_time == clock + gap
      time_since_last_request == current_time - last_request_time
      woke == IF time_since_last_request < MinDelay
              THEN current_time + delay + late
              ELSE current_time + late
  IN  /\ last_request_time' = woke
      /\ clock' = woke
      /\ waits' = waits + 1

\* URLScraper.scrape_url: an invalid URL returns before the rate limiter and
\* the request; otherwise wait(), then requests.get
scrape_url(url, fetch, gap, delay, late) ==
  /\ calls' = calls + 1
  /\ call_url' = url
  /\ returned' = ScrapeResult(url, fetch)
  /\ IF validate_url(url)
     THEN /\ wait(gap, delay, late)
          /\ requests' = requests + 1
     ELSE UNCHANGED <<limiter_vars, requests>>

\* URLs a caller may hand to scrape_url
Urls ==
  { <<>>,
    <<"h">>,
    <<"h", "/", "h">>,
    <<"h", ":">>,
    <<"h", ":", "/", "h">>,
    <<"/", "/", "h">>,
    <<":", "/", "/", "h">>,
    <<"1", ":", "/", "/", "h">>,
    <<"h", ":", "/", "/">>,
    <<"h", ":", "/", "/", "/", "h">>,
    <<"h", ":", "/", "/", "[">>,
    <<"h", ":", "/", "/", "h">>,
    <<"h", "1", ":", "/", "/", "h", "/", "h">> }

\* scrape_url calls one scraper serves
MaxCalls == 3

\* A sequential caller calls scrape_url on one URLScraper
ScrapeCall ==
  /\ calls < MaxCalls
  /\ \E url \in Urls :
       IF validate_url(url)
       THEN \E fetch \in Fetches, gap \in Gaps, delay \in Delays, late \in Gaps :
              scrape_url(url, fetch, gap, delay, late)
       ELSE scrape_url(url, NoFetch, 0, MinDelay, 0)
  /\ UNCHANGED <<driver_vars, row_vars, truncate_vars, extract_vars>>

\* ------------------------------------------------------------------------
\* metadata_generator.py: the model gateway and the three stages

Stages == <<"summarize", "keywords", "review">>

\* What the provider answers to one chat completion: no choices, or a first
\* choice with this content
NoChoices == [choices |-> FALSE, content |-> <<>>]
Reply(content) == [choices |-> TRUE, content |-> content]

SummaryReplies ==
  { Reply(<<" ", "A", " ", "b", ".", "\n">>),
    Reply(Rep("a", 20) \o <<".">> \o Rep("b", DefaultMaxLength)) }
KeywordReplies ==
  { Reply(<<"k", ",", "w">>) }
ReviewReplies ==
  { NoChoices, Reply(<<" ">> \o Rep("r", 9) \o <<"\n">>), Reply(Rep("r", 10)) }

\* str(e) of the exception the provider call raises
ApiErrorText == <<"d", "o", "w", "n">>

\* _make_completion_call, line 95: the first choice stripped, or ''
completion_text(reply) == IF reply.choices THEN strip(reply.content) ELSE <<>>

\* backoff.on_exception(max_tries=3): after the n-th failed attempt the
\* exception is re-raised when n has reached max_tries
GivesUpLate(n) == n = MaxTries + 1
GivesUp(n) == n = MaxTries

\* A wrong test: only the empty response counts as insufficient
Insufficient_only_empty(text) == text = <<>>

\* review_metadata, line 179
Insufficient(text) ==
  text = <<>> \/ Len(strip(text)) < MinRecommendationLen

\* The log of an item before any model call
Fresh(row) == [row |-> row, calls |-> <<>>]

\* The log with one more attempt of `stage`
Log(stage, ok) == [item EXCEPT !.calls = Append(@, [stage |-> stage, ok |-> ok])]

\* The row loop moves to the next row, or ends
NextRow ==
  /\ tries' = 0
  /\ IF i < Len(scraped)
     THEN /\ i' = i + 1
          /\ item' = Fresh(i + 1)
          /\ pc' = "summarize"
     ELSE /\ i' = i
          /\ item' = Fresh(0)
          /\ pc' = "done"

\* MetadataProcessor.summarize_content, called from the row loop; each turn
\* is one attempt of _make_completion_call. The exception of the last
\* attempt leaves summarize_content for the except of the row loop.
summarize_content ==
  /\ pc = "summarize"
  /\ LET content == scraped[i].scraped_content
     IN  \/ /\ ~is_valid(content)
            /\ description' = SummarySentinel
            /\ pc' = "keywords"
            /\ UNCHANGED <<tries, item>>
         \/ /\ is_valid(content)
            /\ \E reply \in SummaryReplies :
                 description' = truncate_summary(completion_text(reply), DefaultMaxLength)
            /\ item' = Log("summarize", TRUE)
            /\ tries' = 0
            /\ pc' = "keywords"
         \/ /\ is_valid(content)
            /\ item' = Log("summarize", FALSE)
            /\ tries' = tries + 1
            /\ pc' = IF GivesUp(tries + 1) THEN "except" ELSE pc
            /\ UNCHANGED description
  /\ UNCHANGED <<i, results, keywords, recommendations>>
  /\ UNCHANGED <<entry, api_key, input_type, table, scraped, scraper_vars, truncate_vars, extract_vars>>

\* MetadataProcessor.generate_keywords, called from the row loop
generate_keywords ==
  /\ pc = "keywords"
  /\ LET content == scraped[i].scraped_content
     IN  \/ /\ ~is_valid(content)
            /\ keywords' = KeywordSentinel
            /\ pc' = "review"
            /\ UNCHANGED <<tries, item>>
         \/ /\ is_valid(content)
            /\ \E reply \in KeywordReplies :
                 keywords' = completion_text(reply)
            /\ item' = Log("keywords", TRUE)
            /\ tries' = 0
            /\ pc' = "review"
         \/ /\ is_valid(content)
            /\ item' = Log("keywords", FALSE)
            /\ tries' = tries + 1
            /\ pc' = IF GivesUp(tries + 1) THEN "except" ELSE pc
            /\ UNCHANGED keywords
  /\ UNCHANGED <<i, results, description, recommendations>>
  /\ UNCHANGED <<entry, api_key, input_type, table, scraped, scraper_vars, truncate_vars, extract_vars>>

\* MetadataProcessor.review_metadata, called from the row loop whatever the
\* content is; it catches the exception of the last attempt itself
review_metadata ==
  /\ pc = "review"
  /\ \/ /\ \E reply \in ReviewReplies :
             recommendations' = IF Insufficient(completion_text(reply))
                                THEN InsufficientSentinel
                                ELSE completion_text(reply)
        /\ item' = Log("review", TRUE)
        /\ tries' = 0
        /\ pc' = "append"
     \/ /\ item' = Log("review", FALSE)
        /\ tries' = tries + 1
        /\ IF GivesUp(tries + 1)
           THEN /\ recommendations' = ErrorDuringReview \o ApiErrorText
                /\ pc' = "append"
           ELSE UNCHANGED <<recommendations, pc>>
  /\ UNCHANGED <<i, results, description, keywords>>
  /\ UNCHANGED <<entry, api_key, input_type, table, scraped, scraper_vars, truncate_vars, extract_vars>>

\* The row loop appends the record (main.py) or writes it (write_row) and
\* goes on
append_record ==
  /\ pc = "append"
  /\ results' = Append(results,
       [url |-> scraped[i].url,
        scraped_content |-> scraped[i].scraped_content,
        generated_description |-> description,
        generated_keywords |-> keywords,
        model_recommendations |-> recommendations])
  /\ NextRow
  /\ UNCHANGED <<description, keywords, recommendations>>
  /\ UNCHANGED <<entry, api_key, input_type, table, scraped, scraper_vars, truncate_vars, extract_vars>>

\* A wrong except: the row is tried again from its first stage
row_except_retry ==
  /\ pc = "except"
  /\ pc' = "summarize"
  /\ tries' = 0
  /\ item' = Fresh(i)
  /\ UNCHANGED <<i, results, description, keywords, recommendations>>
  /\ UNCHANGED <<entry, api_key, input_type, table, scraped, scraper_vars, truncate_vars, extract_vars>>

\* The except of the row loop: the error is logged and the row is left out
row_except ==
  /\ pc = "except"
  /\ NextRow
  /\ UNCHANGED <<results, description, keywords, recommendations>>
  /\ UNCHANGED <<entry, api_key, input_type, table, scraped, scraper_vars, truncate_vars, extract_vars>>

\* ------------------------------------------------------------------------
\* The drivers: main.py, scrape_urls.py, metadata_generator.py

Entries == {"main.py", "scrape_urls.py", "metadata_generator.py"}

\* Cells of the first column of a URL table
TableUrls ==
  { <<" ">>, <<"h", "/", "h">>, <<" ", "h", ":", "/", "/", "h">> }

\* Cells of the scraped_content column of a pre-scraped table
Contents ==
  { <<>>,
    Redirected,
    <<" ">> \o Rep("c", MinContentLen - 1) \o <<" ">>,
    Rep("c", MinContentLen) }

\* The url cell of row k of a pre-scraped table
RowUrl(k) == <<"h", ":", "/", "/", "h", "/">> \o str(k)

UrlTables ==
  UNION { [1..n -> [url : TableUrls]] : n \in 0..MaxRows }
ContentTables ==
  UNION { { [k \in 1..n |-> [url |-> RowUrl(k), scraped_content |-> c[k]]] :
              c \in [1..n -> Contents] } : n \in 0..MaxRows }

\* The fetch outcomes the drivers are run against
DriverFetches ==
  { f \in Fetches :
      f.kind = "response" /\ (f.status = 200 => is_valid(extract_content(f.page))) }

\* The script the scraping drivers hand over to
AfterScrape == IF entry = "main.py" THEN "generate" ELSE "generator_main"

\* main.py main(), lines 128-130 and 152: without the credential the page
\* stops before process_urls
app_main ==
  /\ pc = "start"
  /\ entry = "main.py"
  /\ pc' = IF api_key THEN "scrape" ELSE "stopped"
  /\ UNCHANGED <<entry, api_key, input_type, table, i, scraped>>
  /\ UNCHANGED <<row_vars, scraper_vars, truncate_vars, extract_vars>>

\* scrape_urls.py main(): CSVProcessor.process starts at once
scraper_main ==
  /\ pc = "start"
  /\ entry = "scrape_urls.py"
  /\ pc' = "scrape"
  /\ UNCHANGED <<entry, api_key, input_type, table, i, scraped>>
  /\ UNCHANGED <<row_vars, scraper_vars, truncate_vars, extract_vars>>

\* main.py process_urls, urls_only: one turn of the loop over the rows
process_urls_row ==
  /\ pc = "scrape"
  /\ entry = "main.py"
  /\ input_type = "urls_only"
  /\ i <= Len(table)
  /\ LET url == strip(table[i].url)
     IN  \E fetch \in IF validate_url(url) THEN DriverFetches ELSE {NoFetch},
            gap \in IF validate_url(url) THEN {0, MinDelay} ELSE {0},
            delay \in {MinDelay} :
           /\ scrape_url(url, fetch, gap, delay, 0)
           /\ scraped' = Append(scraped,
                [url |-> url, scraped_content |-> ScrapeResult(url, fetch)])
  /\ i' = i + 1
  /\ UNCHANGED <<entry, api_key, input_type, table, pc>>
  /\ UNCHANGED <<row_vars, truncate_vars, extract_vars>>

\* CSVProcessor.process, URLs: one turn of the loop; a blank cell is skipped
process_row ==
  /\ pc = "scrape"
  /\ entry = "scrape_urls.py"
  /\ input_type = "urls_only"
  /\ i <= Len(table)
  /\ LET url == strip(table[i].url)
     IN  IF url # <<>>
         THEN \E fetch \in IF validate_url(url) THEN DriverFetches ELSE {NoFetch},
                 gap \in IF validate_url(url) THEN {0, MinDelay} ELSE {0},
                 delay \in {MinDelay} :
                /\ scrape_url(url, fetch, gap, delay, 0)
                /\ scraped' = Append(scraped,
                     [url |-> url, scraped_content |-> ScrapeResult(url, fetch)])
         ELSE UNCHANGED <<scraped, scraper_vars>>
  /\ i' = i + 1
  /\ UNCHANGED <<entry, api_key, input_type, table, pc>>
  /\ UNCHANGED <<row_vars, truncate_vars, extract_vars>>

\* The loop over the URL rows ends: process_urls returns the frame,
\* CSVProcessor.process writes the file and runs metadata_generator.py
scrape_done ==
  /\ pc = "scrape"
  /\ input_type = "urls_only"
  /\ i > Len(table)
  /\ pc' = AfterScrape
  /\ i' = 1
  /\ UNCHANGED <<entry, api_key, input_type, table, scraped>>
  /\ UNCHANGED <<row_vars, scraper_vars, truncate_vars, extract_vars>>

\* A wrong pre-scraped path: the content cells are trimmed on the way
pre_scraped_rows_stripped(rows) ==
  [k \in 1..Len(rows) |->
     [url |-> rows[k].url, scraped_content |-> strip(rows[k].scraped_content)]]

\* The rows the pre-scraped path hands on: df[['url', 'scraped_content']] in
\* process_urls, the dictionaries of url and scraped_content in
\* CSVProcessor.process; both cells of every row as they were read
pre_scraped_rows(rows) ==
  [k \in 1..Len(rows) |->
     [url |-> rows[k].url, scraped_content |-> rows[k].scraped_content]]

\* The pre-scraped path of process_urls and of CSVProcessor.process: no
\* URLScraper is used, the rows are taken as they are
pre_scraped ==
  /\ pc = "scrape"
  /\ input_type = "urls_and_content"
  /\ scraped' = pre_scraped_rows(table)
  /\ pc' = AfterScrape
  /\ UNCHANGED <<entry, api_key, input_type, table, i>>
  /\ UNCHANGED <<row_vars, scraper_vars, truncate_vars, extract_vars>>

\* metadata_generator.py main(), started directly or by
\* _run_metadata_generator: without the credential it exits 1, otherwise it
\* reads scraped_content.csv and enters the row loop
generator_main ==
  /\ \/ pc = "start" /\ entry = "metadata_generator.py"
     \/ pc = "generator_main"
  /\ LET rows == IF pc = "start" THEN table ELSE scraped
     IN  /\ scraped' = rows
         /\ pc' = IF ~api_key THEN "exit1"
                  ELSE IF rows = <<>> THEN "done" ELSE "summarize"
         /\ item' = IF api_key /\ rows # <<>> THEN Fresh(1) ELSE item
  /\ i' = 1
  /\ UNCHANGED <<entry, api_key, input_type, table>>
  /\ UNCHANGED <<results, description, keywords, recommendations, tries>>
  /\ UNCHANGED <<scraper_vars, truncate_vars, extract_vars>>

\* main.py generate_metadata: the processor is built and the row loop entered
generate_metadata ==
  /\ pc = "generate"
  /\ pc' = IF scraped = <<>> THEN "done" ELSE "summarize"
  /\ item' = IF scraped = <<>> THEN item ELSE Fresh(1)
  /\ i' = 1
  /\ UNCHANGED <<entry, api_key, input_type, table, scraped>>
  /\ UNCHANGED <<results, description, keywords, recommendations, tries>>
  /\ UNCHANGED <<scraper_vars, truncate_vars, extract_vars>>

\* ------------------------------------------------------------------------
\* truncate_summary on its own

Strings(alphabet, n) == UNION { [1..k -> alphabet] : k \in 0..n }

TruncateCall ==
  /\ t_pc = "call"
  /\ truncated' = truncate_summary(summary, max_length)
  /\ t_pc' = "returned"
  /\ UNCHANGED <<summary, max_length, driver_vars, row_vars, scraper_vars, extract_vars>>

\* ------------------------------------------------------------------------
\* URLScraper._extract_content on the tree of the main element

\* The phrases _extract_content looks for, and the French heading of a
\* table of contents
OnThisPage ==
  <<"O", "n", " ", "t", "h", "i", "s", " ", "p", "a", "g", "e", ":">>
SurCettePage ==
  <<"S", "u", "r", " ", "c", "e", "t", "t", "e", " ", "p", "a", "g", "e",
    " ", ":">>
ChatWithCharlie ==
  <<"C", "h", "a", "t", " ", "w", "i", "t", "h", " ", "C", "h", "a", "r",
    "l", "i", "e">>
ClavardezAvecCharlie ==
  <<"C", "l", "a", "v", "a", "r", "d", "e", "z", " ", "a", "v", "e", "c",
    " ", "C", "h", "a", "r", "l", "i", "e">>

\* An element is a record: id (what tells the element from the others of the
\* tree), tag, class (the list of the class attribute), text (its own text,
\* which stands before its child elements) and kids (its child elements)
Element(id, tag, class, text, kids) ==
  [id |-> id, tag |-> tag, class |-> class, text |-> text, kids |-> kids]

\* `sub in s` of two Python strings
contains(s, sub) ==
  \E k \in 0..(Len(s) - Len(sub)) : SubSeq(s, k + 1, k + Len(sub)) = sub

\* sep.join(strings)
RECURSIVE join(_, _)
join(sep, strings) ==
  IF strings = <<>> THEN <<>>
  ELSE IF Len(strings) = 1 THEN strings[1]
  ELSE strings[1] \o sep \o join(sep, Tail(strings))

\* The elements below a list of siblings, in document order: what find_all
\* walks through
RECURSIVE descendants(_)
descendants(siblings) ==
  IF siblings = <<>> THEN <<>>
  ELSE <<siblings[1]>> \o descendants(siblings[1].kids) \o descendants(Tail(siblings))

\* Tag.get_text(): all the text of the element and of the elements below it
RECURSIVE get_text(_)
get_text(element) ==
  element.text \o join(<<>>, [k \in 1..Len(element.kids) |-> get_text(element.kids[k])])

\* self.allowed_tags
allowed_tags == <<"h1", "h2", "h3", "h4", "p">>

\* unwanted_sections: each signature as its words
unwanted_sections ==
  << <<"provisional", "most-requested-bullets", "well", "well-sm", "brdr-0">>,
     <<"pagedetails", "container">>,
     <<"lnkbx">>,
     <<"pagedetails">>,
     <<"gc-prtts">>,
     <<"alert", "alert-info">> >>

\* class_=signature of find_all: the signature is one of the classes of the
\* element, or it is the whole class attribute
class_matches(class, signature) ==
  \/ Len(signature) = 1 /\ \E k \in 1..Len(class) : class[k] = signature[1]
  \/ class = signature

\* A wrong test: only a signature of one word is looked for
is_unwanted_section_one_word(element) ==
  /\ element.tag = "section"
  /\ \E n \in 1..Len(unwanted_sections) :
       /\ Len(unwanted_sections[n]) = 1
       /\ class_matches(element.class, unwanted_sections[n])

\* The elements main_element.find_all('section', class_=unwanted_class)
\* finds for one of the signatures
is_unwanted_section(element) ==
  /\ element.tag = "section"
  /\ \E n \in 1..Len(unwanted_sections) :
       class_matches(element.class, unwanted_sections[n])

\* Lines 106-109: every such section is decomposed, with all below it
RECURSIVE remove_unwanted_sections(_)
remove_unwanted_sections(siblings) ==
  IF siblings = <<>> THEN <<>>
  ELSE IF is_unwanted_section(siblings[1])
       THEN remove_unwanted_sections(Tail(siblings))
       ELSE << [siblings[1] EXCEPT !.kids = remove_unwanted_sections(@)] >>
              \o remove_unwanted_sections(Tail(siblings))

\* Tag.string: the text of an element that has nothing but text
HasString(element) == element.kids = <<>> /\ element.text # <<>>

\* Line 111: the h2 elements of class h3 whose string has "On this page:"
is_on_this_page(element) ==
  /\ element.tag = "h2"
  /\ \E k \in 1..Len(element.class) : element.class[k] = "h3"
  /\ HasString(element)
  /\ contains(element.text, OnThisPage)

\* Lines 112-116: each heading found, in document order, goes with the
\* element after it when that element is a ul
RECURSIVE remove_on_this_page(_)
remove_on_this_page(siblings) ==
  IF siblings = <<>> THEN <<>>
  ELSE IF /\ is_on_this_page(siblings[1])
          /\ Len(siblings) >= 2
          /\ siblings[2].tag = "ul"
       THEN remove_on_this_page(Tail(Tail(siblings)))
       ELSE << [siblings[1] EXCEPT !.kids = remove_on_this_page(@)] >>
              \o remove_on_this_page(Tail(siblings))

\* Line 122: the h2 of the chat widget
is_chat_heading(element) ==
  /\ element.tag = "h2"
  /\ \/ contains(get_text(element), ChatWithCharlie)
     \/ contains(get_text(element), ClavardezAvecCharlie)

\* Lines 118-124: the trimmed texts of the elements of each allowed tag,
\* tag after tag
collect(siblings) ==
  LET all == descendants(siblings)
      of_tag(tag) ==
        SelectSeq(all, LAMBDA e : e.tag = tag /\ ~is_chat_heading(e))
      texts(tag) ==
        [k \in 1..Len(of_tag(tag)) |-> strip(get_text(of_tag(tag)[k]))]
  IN  texts("h1") \o texts("h2") \o texts("h3") \o texts("h4") \o texts("p")

\* The tree _extract_content leaves of the children of main_element
cleanup(siblings) == remove_on_this_page(remove_unwanted_sections(siblings))

\* The value _extract_content returns
extract_main_content(siblings) ==
  Slice(join(<<" ">>, collect(cleanup(siblings))), 0, MaxContentLen)

\* The text that tells element id from the others; id is the path of the
\* element: its position among its siblings after the path of its parent
Mark(id) ==
  <<"[">> \o join(<<".">>, [n \in 1..Len(id) |-> str(id[n])]) \o <<"]">>

\* Shapes of the children of a main element: tag, class, the phrase its text
\* starts with, and the shapes of its children. Every h2 has text and no
\* child element.
Shape(tag, class, phrase, kids) ==
  [tag |-> tag, class |-> class, phrase |-> phrase, kids |-> kids]

Paragraph == Shape("p", <<>>, <<>>, <<>>)
BulletList == Shape("ul", <<>>, <<>>, <<>>)
NumberedList == Shape("ol", <<>>, <<>>, <<>>)
Contents_h2 == Shape("h2", <<"h3">>, OnThisPage, <<>>)

Shapes ==
  { Paragraph,
    BulletList,
    NumberedList,
    Contents_h2,
    Shape("h2", <<"h3">>, SurCettePage, <<>>),
    Shape("h2", <<>>, OnThisPage, <<>>),
    Shape("h3", <<"h3">>, OnThisPage, <<>>),
    Shape("h2", <<>>, ClavardezAvecCharlie, <<>>),
    Shape("h1", <<>>, <<" ">>, <<>>),
    Shape("section", <<"lnkbx">>, <<>>, <<Paragraph>>),
    Shape("section", <<"alert", "alert-info">>, <<>>, <<Paragraph>>),
    Shape("section", <<"alert-info", "alert">>, <<>>, <<Paragraph>>),
    Shape("section", <<"well", "gc-prtts">>, <<>>, <<Paragraph>>),
    Shape("section", <<>>, <<>>, <<Contents_h2, BulletList>>),
    Shape("div", <<"lnkbx">>, <<>>, <<Paragraph>>),
    Shape("div", <<"pagedetails", "container">>, <<>>, <<Contents_h2, NumberedList>>) }

\* The elements of a list of shapes; the elements of the allowed tags get
\* their mark as text, after the phrase
RECURSIVE Elements(_, _)
Elements(shapes, path) ==
  [k \in 1..Len(shapes) |->
     LET id == Append(path, k)
         s == shapes[k]
         marked == \E n \in 1..Len(allowed_tags) : allowed_tags[n] = s.tag
     IN  Element(id, s.tag, s.class,
                 IF marked THEN s.phrase \o Mark(id) ELSE <<>>,
                 Elements(s.kids, id))]

\* The main elements the extraction is run on
MainElements ==
  UNION { { Elements(shapes, <<>>) : shapes \in [1..n -> Shapes] } : n \in 0..MaxTop }

\* _extract_content(main_element), as scrape_url calls it
ExtractCall ==
  /\ e_pc = "call"
  /\ cleaned' = cleanup(main_element)
  /\ extracted' = extract_main_content(main_element)
  /\ e_pc' = "returned"
  /\ UNCHANGED <<main_element, driver_vars, row_vars, scraper_vars, truncate_vars>>

\* ------------------------------------------------------------------------
\* Specifications

InitScraper ==
  /\ last_request_time = 0
  /\ clock = StartTime
  /\ waits = 0
  /\ requests = 0
  /\ calls = 0
  /\ call_url = <<>>
  /\ returned = <<>>

InitRows ==
  /\ i = 1
  /\ scraped = <<>>
  /\ results = <<>>
  /\ description = <<>>
  /\ keywords = <<>>
  /\ recommendations = <<>>
  /\ tries = 0
  /\ item = Fresh(0)

NoTruncate ==
  /\ summary = <<>>
  /\ max_length = DefaultMaxLength
  /\ truncated = <<>>
  /\ t_pc = "idle"

NoExtract ==
  /\ main_element = <<>>
  /\ cleaned = <<>>
  /\ extracted = <<>>
  /\ e_pc = "idle"

\* One run of one of the three scripts on one input table
Init ==
  /\ entry \in Entries
  /\ api_key \in BOOLEAN
  /\ input_type \in IF entry = "metadata_generator.py"
                    THEN {"urls_and_content"}
                    ELSE {"urls_only", "urls_and_content"}
  /\ table \in IF input_type = "urls_only" THEN UrlTables ELSE ContentTables
  /\ pc = "start"
  /\ InitRows
  /\ InitScraper
  /\ NoTruncate
  /\ NoExtract

Next ==
  \/ app_main
  \/ scraper_main
  \/ process_urls_row
  \/ process_row
  \/ scrape_done
  \/ pre_scraped
  \/ generator_main
  \/ generate_metadata
  \/ summarize_content
  \/ generate_keywords
  \/ review_metadata
  \/ append_record
  \/ row_except

Spec == Init /\ [][Next]_vars

\* The row loop of metadata_generator.py on a table of contents that are
\* empty or long enough, the credential set. The script is a sequential program: a step that can be
\* taken is taken, each model call returning or failing.
InitItems ==
  /\ Init
  /\ entry = "metadata_generator.py"
  /\ api_key
  /\ \A k \in 1..Len(table) :
       table[k].scraped_content \in {<<>>, Rep("c", MinContentLen)}

NextItems ==
  \/ generator_main
  \/ summarize_content
  \/ generate_keywords
  \/ review_metadata
  \/ append_record
  \/ row_except

SpecItems == InitItems /\ [][NextItems]_vars /\ WF_vars(NextItems)

\* One URLScraper serving a sequential caller
InitScraperOnly ==
  /\ entry = "URLScraper"
  /\ api_key = FALSE
  /\ input_type = "urls_only"
  /\ table = <<>>
  /\ pc = "idle"
  /\ InitRows
  /\ InitScraper
  /\ NoTruncate
  /\ NoExtract

NextScraper == ScrapeCall

SpecScraper == InitScraperOnly /\ [][NextScraper]_vars

\* truncate_summary called once on a string and a limit
InitTruncate ==
  /\ entry = "truncate_summary"
  /\ api_key = FALSE
  /\ input_type = "urls_only"
  /\ table = <<>>
  /\ pc = "idle"
  /\ InitRows
  /\ InitScraper
  /\ summary \in Strings({".", "a"}, MaxLen)
                 \cup {Rep("a", 20) \o <<".">> \o Rep("b", DefaultMaxLength)}
  /\ max_length \in (0 - 2)..(MaxLen + 1) \cup {DefaultMaxLength}
  /\ truncated = <<>>
  /\ t_pc = "call"
  /\ NoExtract

NextTruncate == TruncateCall

SpecTruncate == InitTruncate /\ [][NextTruncate]_vars

\* _extract_content called once on a main element
InitExtract ==
  /\ entry = "_extract_content"
  /\ api_key = FALSE
  /\ input_type = "urls_only"
  /\ table = <<>>
  /\ pc = "idle"
  /\ InitRows
  /\ InitScraper
  /\ NoTruncate
  /\ main_element \in MainElements
  /\ cleaned = <<>>
  /\ extracted = <<>>
  /\ e_pc = "call"

NextExtract == ExtractCall

SpecExtract == InitExtract /\ [][NextExtract]_vars

\* ------------------------------------------------------------------------
\* Claims

RowPcs == {"summarize", "keywords", "review", "append", "except"}

\* The trimmed text is shorter than 50 characters
Short(text) == Len(strip(text)) < MinContentLen

\* The attempts of one stage logged for the item in progress
StageCalls(stage) == SelectSeq(item.calls, LAMBDA c : c.stage = stage)
Failures(stage) == Len(SelectSeq(item.calls, LAMBDA c : c.stage = stage /\ ~c.ok))

\* C1: for an item whose trimmed content is shorter than 50 characters no
\* model call of any kind is issued (the review is skipped).
C1_NoModelCallForShortContent ==
  (pc \in RowPcs /\ Short(scraped[i].scraped_content)) => item.calls = <<>>

\* C2: when the model call of a stage has failed on all its attempts, the
\* row is not dropped: the later stages still run and the record is appended.
C2_FailedStageKeepsRecord ==
  \A k \in 1..Len(Stages) :
    Failures(Stages[k]) = MaxTries =>
      pc \in {Stages[j] : j \in (k + 1)..Len(Stages)} \cup {"append"}

\* C3: when the row loop has ended, the output holds exactly one record per
\* row of the scraped table, in the order of the rows.
C3_OneRecordPerRowInOrder ==
  pc = "done" =>
    /\ Len(results) = Len(scraped)
    /\ \A k \in 1..Len(results) :
         /\ results[k].url = scraped[k].url
         /\ results[k].scraped_content = scraped[k].scraped_content

\* C4: a model gateway call makes at most 3 attempts and stops at the first
\* success: an attempt follows failures only, a running call has made fewer
\* than 3 attempts, and a call that ended in failure made exactly 3; the
\* error of summarize and keywords then reaches the row loop's except, the
\* error of review becomes its error text.
C4_AtMostThreeAttempts ==
  \A k \in 1..Len(Stages) :
    LET stage == Stages[k]
        a == StageCalls(stage)
        running == pc = stage /\ tries > 0
    IN  /\ Len(a) <= MaxTries
        /\ \A n \in 1..(Len(a) - 1) : ~a[n].ok
        /\ running => (Len(a) = tries /\ tries < MaxTries /\ ~a[Len(a)].ok)
        /\ (~running /\ a # <<>> /\ ~a[Len(a)].ok) =>
             /\ Len(a) = MaxTries
             /\ pc = IF stage = "review" THEN "append" ELSE "except"
             /\ stage = "review" => recommendations = ErrorDuringReview \o ApiErrorText

\* C4 witness: summarize failed once and then succeeded with no further
\* attempt, keywords failed three times and the error reached the row loop
C4_Witness ==
  /\ pc = "except"
  /\ item.calls = << [stage |-> "summarize", ok |-> FALSE],
                     [stage |-> "summarize", ok |-> TRUE],
                     [stage |-> "keywords", ok |-> FALSE],
                     [stage |-> "keywords", ok |-> FALSE],
                     [stage |-> "keywords", ok |-> FALSE] >>

\* C5: for a text whose trimmed length is below 50, summarize_content and
\* generate_keywords return their sentinels and make no model call.
C5_ShortContentSentinels ==
  /\ (pc \in RowPcs /\ Short(scraped[i].scraped_content)) =>
       /\ StageCalls("summarize") = <<>>
       /\ StageCalls("keywords") = <<>>
       /\ pc \in {"keywords", "review", "append"} => description = SummarySentinel
       /\ pc \in {"review", "append"} => keywords = KeywordSentinel
  /\ \A k \in 1..Len(results) :
       Short(results[k].scraped_content) =>
         /\ results[k].generated_description = SummarySentinel
         /\ results[k].generated_keywords = KeywordSentinel

\* C5 witness: both functions have returned for a padded text of 49
\* characters, without a model call
C5_Witness ==
  /\ pc = "review"
  /\ scraped[i].scraped_content = <<" ">> \o Rep("c", MinContentLen - 1) \o <<" ">>
  /\ description = SummarySentinel
  /\ keywords = KeywordSentinel
  /\ item.calls = <<>>

\* The URL has no scheme or no authority
LacksSchemeOrNetloc(url) == UrlScheme(url) = <<>> \/ UrlNetloc(url) = <<>>

\* C6: for a URL that lacks a scheme or an authority, scrape_url returns
\* 'Invalid URL format', makes no request and leaves the rate limiter alone.
C6_InvalidUrlNoRequest ==
  [][(calls' = calls + 1 /\ LacksSchemeOrNetloc(call_url')) =>
       /\ returned' = InvalidUrlFormat
       /\ requests' = requests
       /\ waits' = waits
       /\ last_request_time' = last_request_time]_vars

\* C6 witness: after a request was made, a URL with a scheme and no
\* authority was refused and the limiter still holds the earlier time
C6_Witness ==
  /\ calls = 2
  /\ requests = 1
  /\ waits = 1
  /\ last_request_time = StartTime
  /\ call_url = <<"h", ":", "/", "h">>
  /\ returned = InvalidUrlFormat

\* C7: without the credential no URL is fetched, no model call is made and
\* the batch does not begin, whatever the entry point.
C7_NoCredentialNoWork ==
  ~api_key =>
    /\ requests = 0
    /\ item.calls = <<>>
    /\ pc \notin RowPcs

\* C8: the last_request_time values recorded by two consecutive wait()
\* calls differ by at least min_delay.
C8_ConsecutiveWaitsApart ==
  [][(waits' = waits + 1 /\ waits >= 1) =>
       last_request_time' - last_request_time >= MinDelay]_vars

\* C8 witness: a second wait() came at once after the first and slept the
\* shortest delay
C8_Witness ==
  /\ waits = 2
  /\ last_request_time = StartTime + MinDelay

\* A '.' exists within the first max_length characters
DotWithin(s, m) == \E k \in 1..Len(s) : k <= m /\ s[k] = "."
EndsWithDot(s) == s # <<>> /\ s[Len(s)] = "."
IsPrefix(p, s) == Len(p) <= Len(s) /\ SubSeq(s, 1, Len(p)) = p

\* C9 as stated: whenever a '.' exists within the first max_length
\* characters, the result of truncate_summary ends with '.'.
C9_EndsWithStop ==
  (t_pc = "returned" /\ DotWithin(summary, max_length)) => EndsWithDot(truncated)

\* C9 as amended: a string longer than max_length with a '.' within its
\* first max_length characters is cut to end with '.'; a string no longer
\* than max_length is returned as it is.
C9_LongEndsWithStop ==
  t_pc = "returned" =>
    /\ (Len(summary) > max_length /\ DotWithin(summary, max_length)) =>
         EndsWithDot(truncated)
    /\ Len(summary) <= max_length => truncated = summary

\* C9 witness: a longer string was cut back to its last '.' within the limit
C9_Witness ==
  /\ t_pc = "returned"
  /\ Len(summary) > max_length
  /\ DotWithin(summary, max_length)
  /\ Len(truncated) < max_length
  /\ EndsWithDot(truncated)

\* C10: for a non-negative max_length, truncate_summary returns a prefix of
\* its input of at most max_length characters.
C10_PrefixWithinLimit ==
  (t_pc = "returned" /\ max_length >= 0) =>
    /\ Len(truncated) <= max_length
    /\ IsPrefix(truncated, summary)

\* C10 witness: a string longer than the limit, with no '.' within the
\* limit, was cut at the limit
C10_Witness ==
  /\ t_pc = "returned"
  /\ max_length >= 0
  /\ Len(summary) > max_length
  /\ ~DotWithin(summary, max_length)
  /\ Len(truncated) = max_length
  /\ max_length > 0

\* C11: on the pre-scraped path (a table of url and scraped_content, run by
\* main.py or by scrape_urls.py --pre-scraped) nothing is extracted: no
\* scrape_url call, no wait of the rate limiter, no request; the rows handed
\* to the row loop are the rows of the table, and every record put out
\* carries the scraped_content of the input row of its url.
C11_PreScrapedKeepsContent ==
  (input_type = "urls_and_content" /\ entry \in {"main.py", "scrape_urls.py"}) =>
    /\ calls = 0 /\ waits = 0 /\ requests = 0 /\ last_request_time = 0
    /\ (pc \in RowPcs \cup {"generate", "generator_main", "done"} => scraped = table)
    /\ \A k \in 1..Len(results) :
         \E j \in 1..Len(table) :
           /\ table[j].url = results[k].url
           /\ table[j].scraped_content = results[k].scraped_content

\* Both rows of a pre-scraped table were put out, one of them with content
\* that has blanks at both ends
C11_Witness ==
  /\ input_type = "urls_and_content"
  /\ entry \in {"main.py", "scrape_urls.py"}
  /\ pc = "done"
  /\ Len(results) = MaxRows
  /\ \E k \in 1..Len(results) :
       /\ results[k].scraped_content # <<>>
       /\ strip(results[k].scraped_content) # results[k].scraped_content

\* The ids of the elements below a list of siblings
Ids(siblings) ==
  { descendants(siblings)[k].id : k \in 1..Len(descendants(siblings)) }

\* The lists of siblings below a list of siblings, itself included
SiblingLists(siblings) ==
  {siblings} \cup
  { descendants(siblings)[k].kids : k \in 1..Len(descendants(siblings)) }

\* A heading whose text has "On this page:" in English or in French
IsContentsHeading(element) ==
  /\ element.tag \in {"h1", "h2", "h3", "h4", "h5", "h6"}
  /\ \/ contains(get_text(element), OnThisPage)
     \/ contains(get_text(element), SurCettePage)

IsList(element) == element.tag \in {"ul", "ol"}

\* C12: after the cleanup of the main region, a heading with the phrase
\* "On this page:", in either language, that stands outside the removed
\* sections is gone together with the element right after it when that
\* element is a list, and both are still there when that element is not a
\* list (and no such heading itself).
C12_ContentsHeadingGoesWithList ==
  e_pc = "returned" =>
    \A siblings \in SiblingLists(remove_unwanted_sections(main_element)) :
      \A k \in 1..(Len(siblings) - 1) :
        IsContentsHeading(siblings[k]) =>
          IF IsList(siblings[k + 1])
          THEN /\ siblings[k].id \notin Ids(cleaned)
               /\ siblings[k + 1].id \notin Ids(cleaned)
          ELSE IsContentsHeading(siblings[k + 1])
               \/ /\ siblings[k].id \in Ids(cleaned)
                  /\ siblings[k + 1].id \in Ids(cleaned)

\* The class of the element matches one of the signatures
HasSignature(element) ==
  \E n \in 1..Len(unwanted_sections) :
    class_matches(element.class, unwanted_sections[n])

\* The marks of the texts in the subtree of the element
MarksBelow(element) ==
  { Mark(e.id) : e \in { d \in { descendants(<<element>>)[k] :
                                   k \in 1..Len(descendants(<<element>>)) } :
                          d.text # <<>> } }

\* C13 as stated: no text of a subtree whose class matches a signature,
\* whatever the tag of its root, is in the extracted content.
C13_NoTextOfSignedSubtree ==
  e_pc = "returned" =>
    \A k \in 1..Len(descendants(main_element)) :
      HasSignature(descendants(main_element)[k]) =>
        \A mark \in MarksBelow(descendants(main_element)[k]) :
          ~contains(extracted, mark)

\* C13, amended: no text of a section whose class matches a signature (the
\* signature is one of its classes, or its whole class attribute) is in the
\* extracted content.
C13_NoTextOfSignedSection ==
  e_pc = "returned" =>
    \A k \in 1..Len(descendants(main_element)) :
      (descendants(main_element)[k].tag = "section"
         /\ HasSignature(descendants(main_element)[k])) =>
        \A mark \in MarksBelow(descendants(main_element)[k]) :
          ~contains(extracted, mark)

\* A section with a signature and a paragraph in it stood beside an element
\* whose text was extracted
C13_Witness ==
  /\ e_pc = "returned"
  /\ extracted # <<>>
  /\ \E k \in 1..Len(main_element) :
       /\ main_element[k].tag = "section"
       /\ HasSignature(main_element[k])
       /\ MarksBelow(main_element[k]) # {}
       /\ main_element[k].id \notin Ids(cleaned)

\* The review of the item in progress ended with an answer of the model
ReviewAnswered ==
  /\ StageCalls("review") # <<>>
  /\ StageCalls("review")[Len(StageCalls("review"))].ok

\* What review_metadata may return: the sentinel of an insufficient answer,
\* the sentinel of a failed call, or a text of 10 characters or more when
\* trimmed
ReviewResult(text) ==
  \/ text = InsufficientSentinel
  \/ text = ErrorDuringReview \o ApiErrorText
  \/ Len(strip(text)) >= MinRecommendationLen

C14_ReviewState ==
  /\ pc = "append" =>
       IF ReviewAnswered
       THEN \/ recommendations = InsufficientSentinel
            \/ Len(strip(recommendations)) >= MinRecommendationLen
       ELSE /\ Failures("review") = MaxTries
            /\ IsPrefix(ErrorDuringReview, recommendations)
  /\ Failures("review") = MaxTries => pc = "append"
  /\ \A k \in 1..Len(results) : ReviewResult(results[k].model_recommendations)

\* C14: review_metadata never returns an answer of the model that is shorter
\* than 10 characters when trimmed (the empty answer of a response without
\* choices included): it returns 'Error: Model provided insufficient
\* recommendations' in its place; when the review call has failed on all
\* its attempts it returns 'Error during review: ...' and does not raise;
\* and what it returned is put out in the record of the row.
C14_ReviewSentinels ==
  /\ []C14_ReviewState
  /\ [][pc = "append" =>
          /\ Len(results') = Len(results) + 1
          /\ results'[Len(results')].model_recommendations = recommendations]_vars

\* The record of the first row carries the sentinel of an insufficient
\* answer, and the review of the second row has just failed for the third
\* time
C14_Witness ==
  /\ Len(results) = 1
  /\ results[1].model_recommendations = InsufficientSentinel
  /\ pc = "append"
  /\ Failures("review") = MaxTries
  /\ recommendations = ErrorDuringReview \o ApiErrorText

\* The place of a stage in the order of the stages
StageIndex(stage) == CHOOSE k \in 1..Len(Stages) : Stages[k] = stage

\* The attempts made for the item in progress: 3 at most per stage, 9 at
\* most in all, those of a stage after those of the stage before it
C15_AttemptsBounded ==
  /\ Len(item.calls) <= MaxTries * Len(Stages)
  /\ \A k \in 1..Len(Stages) : Len(StageCalls(Stages[k])) <= MaxTries
  /\ \A m, n \in 1..Len(item.calls) :
       m < n => StageIndex(item.calls[m].stage) <= StageIndex(item.calls[n].stage)
  /\ \A m \in 1..Len(item.calls) :
       pc \in {"summarize", "keywords", "review"} =>
         StageIndex(item.calls[m].stage) <= StageIndex(pc)

\* C15: each model call returning or failing, an item that is being
\* processed is in the end left behind by the row loop, by the step that
\* appends its record or by the step of the except that skips it; up to
\* then at most 3 attempts were made for each of summarize, keywords and
\* review, 9 at most in all, and in that order.
C15_ItemTerminates ==
  /\ []C15_AttemptsBounded
  /\ [][(pc \in RowPcs /\ (i' # i \/ pc' = "done")) =>
          \/ pc = "append" /\ Len(results') = Len(results) + 1
          \/ pc = "except" /\ results' = results]_vars
  /\ \A k \in 1..MaxRows :
       (pc \in RowPcs /\ i = k) ~> (pc = "done" \/ i > k)

\* Every stage of the item took its three attempts and the review was
\* answered at the last: nine attempts, and the record is about to be
\* appended
C15_Witness ==
  /\ pc = "append"
  /\ Len(item.calls) = MaxTries * Len(Stages)
  /\ ReviewAnswered

====
